---- MODULE Spec2Model ----
(***************************************************************************)
(* Model of decam/makeCrosstalkDecam.py: readFile (the crosstalk text      *)
(* table parser), makeDetectorCrosstalk (the per-detector writer) and the  *)
(* __main__ script that drives them.                                       *)
(*                                                                         *)
(* Text is modelled as sequences of one-character strings, so that strip,  *)
(* split, "in" and replace are computed as Python computes them.           *)
(* Coefficients are decimal literals; the parsed float is represented by   *)
(* the integer it denotes.                                                 *)
(***************************************************************************)
EXTENDS Integers, Sequences, FiniteSets, TLC

VARIABLES
    consumed,     \* the lines of fromFile the "for line in f" loop has read so far
    outDict,      \* readFile's outDict, the same object __main__ iterates over
    pc,           \* position of the process
    exc,          \* the uncaught exception, if one was raised
    exitCode,     \* process exit status, -1 while running
    force,        \* cmd.force
    verbose,      \* cmd.verbose
    dirExists,    \* whether crosstalkDir exists on disk
    existsLog,    \* results of the os.path.exists calls made so far
    stdout,       \* what print has written
    detIdx,       \* number of iterations done of "for detName in outDict"
    fromDictLog,  \* arguments of the CrosstalkCalib.fromDict calls made so far
    writes,       \* paths of the writeFits calls made so far
    applied,      \* history: the decoded records readFile has applied
    returned,     \* history: a copy of the map as it was when readFile returned
    hasReturned   \* history: whether readFile has returned

vars == <<consumed, outDict, pc, exc, exitCode, force, verbose, dirExists,
          existsLog, stdout, detIdx, fromDictLog, writes, applied, returned,
          hasReturned>>

(***************************************************************************)
(* Bounds                                                                  *)
(***************************************************************************)
MaxLines == 3
MaxInsert == 2

(***************************************************************************)
(* Python string operations                                                *)
(***************************************************************************)
Whitespace == {" ", "\t", "\n"}

RECURSIVE LStrip(_)
LStrip(s) == IF s # <<>> /\ Head(s) \in Whitespace THEN LStrip(Tail(s)) ELSE s

RECURSIVE RStrip(_)
RStrip(s) ==
    IF s # <<>> /\ s[Len(s)] \in Whitespace
    THEN RStrip(SubSeq(s, 1, Len(s) - 1))
    ELSE s

\* str.strip()
Strip(s) == RStrip(LStrip(s))

\* str.startswith(c) for a one-character prefix
StartsWith(s, c) == Len(s) >= 1 /\ s[1] = c

\* length of the longest whitespace-free prefix of s
RECURSIVE WordLen(_)
WordLen(s) ==
    IF s = <<>> \/ Head(s) \in Whitespace THEN 0 ELSE 1 + WordLen(Tail(s))

\* str.split(): the maximal whitespace-free runs, in order
RECURSIVE Split(_)
Split(s) ==
    LET t == LStrip(s)
        n == WordLen(t)
    IN IF t = <<>> THEN <<>>
       ELSE <<SubSeq(t, 1, n)>> \o Split(SubSeq(t, n + 1, Len(t)))

\* c in s, for a one-character c
Contains(s, c) == \E i \in 1..Len(s) : s[i] = c

\* a mutant of Replace: strips both amp characters, whichever was matched
ReplaceAnyAmp(s, c) == SelectSeq(s, LAMBDA x : x \notin {"A", "B"})

\* s.replace(c, ""): every occurrence of c removed
Replace(s, c) == SelectSeq(s, LAMBDA x : x # c)

DigitChars == <<"0", "1", "2", "3", "4", "5", "6", "7", "8", "9">>

DigitVal(c) == (CHOOSE k \in 1..Len(DigitChars) : DigitChars[k] = c) - 1

IsDigit(c) == \E k \in 1..Len(DigitChars) : DigitChars[k] = c

\* whether float(tok) succeeds, for the literals of this model:
\* unsigned decimal integers are accepted, other tokens raise ValueError
IsFloat(tok) == tok # <<>> /\ \A i \in 1..Len(tok) : IsDigit(tok[i])

RECURSIVE FloatOf(_)
FloatOf(tok) ==
    IF tok = <<>> THEN 0
    ELSE 10 * FloatOf(SubSeq(tok, 1, Len(tok) - 1)) + DigitVal(tok[Len(tok)])

(***************************************************************************)
(* The fixed tables of readFile                                            *)
(***************************************************************************)
\* ampIndexMap
ampIndexMap == [A |-> 0, B |-> 1]

\* the values of detMap, in the order of its keys ccd01 .. ccd62
DetNames ==
    <<"S29", "S30", "S31", "S25", "S26", "S27", "S28", "S20", "S21", "S22",
      "S23", "S24", "S14", "S15", "S16", "S17", "S18", "S19", "S8", "S9",
      "S10", "S11", "S12", "S13", "S1", "S2", "S3", "S4", "S5", "S6",
      "S7", "N1", "N2", "N3", "N4", "N5", "N6", "N7", "N8", "N9",
      "N10", "N11", "N12", "N13", "N14", "N15", "N16", "N17", "N18", "N19",
      "N20", "N21", "N22", "N23", "N24", "N25", "N26", "N27", "N28", "N29",
      "N30", "N31">>

\* the n-th key of detMap: "ccd" followed by n as two decimal digits
DetKey(n) == <<"c", "c", "d", DigitChars[(n \div 10) + 1], DigitChars[(n % 10) + 1]>>

\* label in detMap
DetMapHas(label) == \E n \in 1..Len(DetNames) : DetKey(n) = label

\* detMap[label], for a label that is a key
DetMapGet(label) == DetNames[CHOOSE n \in 1..Len(DetNames) : DetKey(n) = label]

(***************************************************************************)
(* Python dicts: insertion-ordered maps                                    *)
(***************************************************************************)
EmptyDict == [keys |-> <<>>, at |-> [k \in {} |-> 0]]

Has(d, k) == k \in DOMAIN d.at

Put(d, k, v) ==
    [keys |-> IF Has(d, k) THEN d.keys ELSE Append(d.keys, k),
     at   |-> [x \in (DOMAIN d.at) \cup {k} |-> IF x = k THEN v ELSE d.at[x]]]

\* e[k] = v on a dict whose iteration order is never used
SetItem(e, k, v) == [x \in (DOMAIN e) \cup {k} |-> IF x = k THEN v ELSE e[x]]

\* np.zeros_like([], shape=shape)
Zeros(shape) == [i \in 0..(shape[1] - 1) |-> [j \in 0..(shape[2] - 1) |-> 0]]

\* a mutant of SetCell: keeps a cell that was already written
SetCellKeepFirst(m, i, j, v) ==
    IF m[i][j] # 0 THEN m ELSE [m EXCEPT ![i][j] = v]

\* m[i][j] = v
SetCell(m, i, j, v) == [m EXCEPT ![i][j] = v]

\* a mutant of Transpose: leaves the matrix as it is
TransposeNoop(m) == m

\* ndarray.transpose() of a 2-d array
Transpose(m) == [i \in DOMAIN m[0] |-> [j \in DOMAIN m |-> m[j][i]]]

(***************************************************************************)
(* readFile: decoding one line                                             *)
(***************************************************************************)
NoExc == [type |-> "none", where |-> "none"]

Raise(type, where) == [type |-> type, where |-> where]

\* the locals of one loop iteration when it ends: normally or by a raise
Locals(kind, e, victimDet, sourceDet, victimAmp, sourceAmp, coeff) ==
    [kind |-> kind, exc |-> e, victimDet |-> victimDet, sourceDet |-> sourceDet,
     victimAmp |-> victimAmp, sourceAmp |-> sourceAmp, coeff |-> coeff]

\* the if / elif / else over 'A' in tok, 'B' in tok; "none" is the raise branch
AmpOf(tok) ==
    IF Contains(tok, "A") THEN "A"
    ELSE IF Contains(tok, "B") THEN "B"
    ELSE "none"

\* one iteration of "for line in f", up to the amp index lookups
ParseLine(line) ==
    LET li   == Strip(line)
        elem == Split(li)
    IN
    IF StartsWith(li, "#")
    THEN Locals("comment", NoExc, "unset", "unset", -1, -1, -1)
    ELSE IF Len(elem) < 1
    THEN Locals("raise", Raise("IndexError", "elem[0]"), "unset", "unset", -1, -1, -1)
    ELSE IF Len(elem) < 2
    THEN Locals("raise", Raise("IndexError", "elem[1]"), "unset", "unset", -1, -1, -1)
    ELSE IF Len(elem) < 3
    THEN Locals("raise", Raise("IndexError", "elem[2]"), "unset", "unset", -1, -1, -1)
    ELSE IF ~IsFloat(elem[3])
    THEN Locals("raise", Raise("ValueError", "float(elem[2])"), "unset", "unset", -1, -1, -1)
    ELSE
    LET coeff     == FloatOf(elem[3])
        victimAmp == AmpOf(elem[1])
        sourceAmp == AmpOf(elem[2])
    IN
    IF victimAmp = "none"
    THEN Locals("raise", Raise("RuntimeError", "Unknown amp: victimDetAmp"),
                "unset", "unset", -1, -1, coeff)
    ELSE IF sourceAmp = "none"
    THEN Locals("raise", Raise("RuntimeError", "Unknown amp: sourceDetAmp"),
                "unset", "unset", -1, -1, coeff)
    ELSE
    LET victimLabel == Replace(elem[1], victimAmp)
        sourceLabel == Replace(elem[2], sourceAmp)
    IN
    IF ~DetMapHas(victimLabel)
    THEN Locals("raise", Raise("KeyError", "detMap[victimDet]"),
                "unset", "unset", -1, -1, coeff)
    ELSE IF ~DetMapHas(sourceLabel)
    THEN Locals("raise", Raise("KeyError", "detMap[sourceDet]"),
                DetMapGet(victimLabel), "unset", -1, -1, coeff)
    ELSE Locals("record", NoExc, DetMapGet(victimLabel), DetMapGet(sourceLabel),
                ampIndexMap[victimAmp], ampIndexMap[sourceAmp], coeff)

(***************************************************************************)
(* readFile: accumulating one decoded record                               *)
(***************************************************************************)
\* a mutant of NewEntry: fills the DETECTOR fields when the entry is created
NewEntryWithDetector(victimDet) ==
    [metadata |-> [OBSTYPE |-> "CROSSTALK", DETECTOR |-> victimDet,
                   DETECTOR_SERIAL |-> "UNKNOWN"],
     interChip |-> EmptyDict,
     crosstalkShape |-> <<2, 2>>,
     hasCrosstalk |-> TRUE,
     nAmp |-> 2,
     coeffs |-> Zeros(<<2, 2>>),
     DETECTOR |-> victimDet,
     DETECTOR_SERIAL |-> "UNKNOWN"]

\* the dict built when victimDet is not yet in outDict
NewEntry(victimDet) ==
    [metadata |-> [OBSTYPE |-> "CROSSTALK"],
     interChip |-> EmptyDict,
     crosstalkShape |-> <<2, 2>>,
     hasCrosstalk |-> TRUE,
     nAmp |-> 2,
     coeffs |-> Zeros(<<2, 2>>)]

\* a mutant of IsSelf: every record is taken for a self record
IsSelfAlways(sourceDet, victimDet) == TRUE

\* the test that chooses between 'coeffs' and 'interChip'
IsSelf(sourceDet, victimDet) == sourceDet = victimDet

\* the body of the loop after decoding: entry creation and the cell write
ApplyRecord(d, r) ==
    LET d1 == IF ~Has(d, r.victimDet)
              THEN Put(d, r.victimDet, NewEntry(r.victimDet))
              ELSE d
        e  == d1.at[r.victimDet]
    IN
    IF IsSelf(r.sourceDet, r.victimDet)
    THEN
        LET md == SetItem(SetItem(e.metadata, "DETECTOR", r.victimDet),
                          "DETECTOR_SERIAL", "UNKNOWN")
            e1 == SetItem(e, "metadata", md)
            e2 == SetItem(e1, "DETECTOR", r.victimDet)
            e3 == SetItem(e2, "DETECTOR_SERIAL", "UNKNOWN")
            e4 == SetItem(e3, "coeffs",
                          SetCell(e3.coeffs, r.victimAmp, r.sourceAmp, r.coeff))
        IN Put(d1, r.victimDet, e4)
    ELSE
        LET ic  == IF ~Has(e.interChip, r.sourceDet)
                   THEN Put(e.interChip, r.sourceDet, Zeros(<<2, 2>>))
                   ELSE e.interChip
            ic1 == Put(ic, r.sourceDet,
                       SetCell(ic.at[r.sourceDet], r.victimAmp, r.sourceAmp, r.coeff))
        IN Put(d1, r.victimDet, SetItem(e, "interChip", ic1))

\* a mutant of NextOutDict: the victim's entry is created before the source
\* detector is looked up
NextOutDictEager(d, p) ==
    IF p.kind = "record" THEN ApplyRecord(d, p)
    ELSE IF p.victimDet # "unset" /\ ~Has(d, p.victimDet)
    THEN Put(d, p.victimDet, NewEntry(p.victimDet))
    ELSE d

\* outDict after one iteration: a comment line and a raise leave it alone
NextOutDict(d, p) == IF p.kind = "record" THEN ApplyRecord(d, p) ELSE d

(***************************************************************************)
(* Input lines                                                             *)
(***************************************************************************)
Tok(n, suffix) == DetKey(n) \o suffix

Line3(a, b, c) == a \o <<" ">> \o b \o <<" ">> \o c \o <<"\n">>

\* ccd01 and ccd02 are keys of detMap; ccd99 is not
InputLines ==
    { Line3(Tok(1, <<"A">>), Tok(1, <<"B">>), <<"1">>),
      Line3(Tok(1, <<"A">>), Tok(1, <<"B">>), <<"2">>),
      <<" ", " ">> \o Tok(1, <<"B">>) \o <<" ", "\t", " ">> \o Tok(1, <<"A">>)
          \o <<" ", "3", "\n">>,
      Line3(Tok(1, <<"A">>), Tok(2, <<"B">>), <<"4">>),
      Line3(Tok(2, <<"B">>), Tok(1, <<"A">>), <<"5">>),
      Line3(Tok(2, <<"B">>), Tok(2, <<"A">>), <<"6">>),
      Line3(Tok(99, <<"A">>), Tok(1, <<"A">>), <<"1">>),
      Line3(Tok(1, <<"A">>), Tok(99, <<"B">>), <<"1">>),
      Line3(Tok(1, <<"X">>), Tok(2, <<"A">>), <<"1">>),
      Line3(Tok(1, <<"A">>), Tok(2, <<"X">>), <<"1">>),
      Line3(Tok(1, <<"A", "B">>), Tok(1, <<"A">>), <<"1">>),
      Line3(Tok(1, <<"A">>), Tok(1, <<"B">>), <<"x">>),
      Tok(1, <<"A">>) \o <<" ">> \o Tok(1, <<"B">>) \o <<"\n">>,
      Tok(1, <<"A">>) \o <<"\n">>,
      <<"\n">>,
      <<" ", "\t", "\n">>,
      <<"#", " ", "c", "\n">>,
      <<" ", "#", "\n">> }

\* every way of putting one more of the characters A, B, X into s
InsertOne(s) ==
    { SubSeq(s, 1, p) \o <<c>> \o SubSeq(s, p + 1, Len(s)) :
        p \in 0..Len(s), c \in {"A", "B", "X"} }

\* a known vendor label and one that is not in detMap (ccd99), with up to k
\* characters put in
RECURSIVE Tokens(_)
Tokens(k) ==
    IF k = 0 THEN {DetKey(1), DetKey(99)}
    ELSE LET prev == Tokens(k - 1)
         IN prev \cup UNION {InsertOne(s) : s \in prev}

\* one-record files whose victim or source token ranges over Tokens(MaxInsert)
TokLines ==
    {Line3(t, Tok(1, <<"B">>), <<"1">>) : t \in Tokens(MaxInsert)}
    \cup {Line3(Tok(2, <<"A">>), t, <<"1">>) : t \in Tokens(MaxInsert)}

(***************************************************************************)
(* The process                                                             *)
(***************************************************************************)
\* DecamMapper.getCrosstalkDir(), a value of the installation
crosstalkDir == "crosstalkDir"

Init ==
    /\ consumed = <<>>
    /\ outDict = EmptyDict
    /\ pc = "readFile"
    /\ exc = NoExc
    /\ exitCode = -1
    /\ force \in BOOLEAN
    /\ verbose \in BOOLEAN
    /\ dirExists \in BOOLEAN
    /\ existsLog = <<>>
    /\ stdout = <<>>
    /\ detIdx = 0
    /\ fromDictLog = <<>>
    /\ writes = <<>>
    /\ applied = <<>>
    /\ returned = EmptyDict
    /\ hasReturned = FALSE

\* one iteration of readFile's "for line in f" on the line read
ReadStep(line) ==
    LET p == ParseLine(line) IN
    /\ consumed' = Append(consumed, line)
    /\ outDict' = NextOutDict(outDict, p)
    /\ applied' = IF p.kind = "record" THEN Append(applied, p) ELSE applied
    /\ exc' = p.exc
    /\ pc' = IF p.kind = "raise" THEN "raised" ELSE "readFile"
    \* an uncaught exception ends the interpreter with status 1
    /\ exitCode' = IF p.kind = "raise" THEN 1 ELSE exitCode
    /\ UNCHANGED <<force, verbose, dirExists, existsLog, stdout, detIdx,
                   fromDictLog, writes, returned, hasReturned>>

\* readFile reads the next line of a crosstalk table
ReadLine ==
    /\ pc = "readFile"
    /\ Len(consumed) < MaxLines
    /\ \E line \in InputLines : ReadStep(line)

\* readFile reads the only line of a one-record table
ReadTokLine ==
    /\ pc = "readFile"
    /\ consumed = <<>>
    /\ \E line \in TokLines : ReadStep(line)

\* the file ends: readFile returns outDict to __main__
ReturnOutDict ==
    /\ pc = "readFile"
    /\ pc' = "checkDir"
    /\ returned' = outDict
    /\ hasReturned' = TRUE
    /\ UNCHANGED <<consumed, outDict, exc, exitCode, force, verbose, dirExists,
                   existsLog, stdout, detIdx, fromDictLog, writes, applied>>

\* a mutant of CheckDir: an existing directory is replaced without --force
CheckDirNoExit ==
    /\ pc = "checkDir"
    /\ existsLog' = Append(existsLog, dirExists)
    /\ stdout' = Append(stdout, <<"Replacing data in crosstalk directory", crosstalkDir>>)
    /\ dirExists' = TRUE
    /\ pc' = "writeLoop"
    /\ UNCHANGED <<consumed, outDict, exc, exitCode, force, verbose, detIdx,
                   fromDictLog, writes, applied, returned, hasReturned>>

\* __main__: the check of the output directory
CheckDir ==
    /\ pc = "checkDir"
    /\ existsLog' = Append(existsLog, dirExists)
    /\ IF dirExists
       THEN IF ~force
            THEN /\ stdout' = Append(stdout,
                        <<"Output directory exists; use --force to replace", crosstalkDir>>)
                 /\ exitCode' = 1
                 /\ pc' = "exited"
                 /\ UNCHANGED dirExists
            ELSE /\ stdout' = Append(stdout,
                        <<"Replacing data in crosstalk directory", crosstalkDir>>)
                 /\ pc' = "writeLoop"
                 /\ UNCHANGED <<exitCode, dirExists>>
       ELSE /\ stdout' = Append(stdout,
                        <<"Creating crosstalk directory", crosstalkDir>>)
            /\ dirExists' = TRUE
            /\ pc' = "writeLoop"
            /\ UNCHANGED exitCode
    /\ UNCHANGED <<consumed, outDict, exc, force, verbose, detIdx,
                   fromDictLog, writes, applied, returned, hasReturned>>

\* what the verbose branch prints for one detector
VerboseOutput(detName, e) ==
    <<  <<"has crosstalk?", detName, e.hasCrosstalk>>,
        <<"COEFF", e.coeffs>>  >>
    \o [k \in 1..Len(e.interChip.keys) |->
            <<"INTERCHIP", e.interChip.keys[k], e.interChip.at[e.interChip.keys[k]]>>]

\* __main__: one iteration of "for detName in outDict", makeDetectorCrosstalk included
MakeDetectorCrosstalk ==
    /\ pc = "writeLoop"
    /\ detIdx < Len(outDict.keys)
    /\ LET detName  == outDict.keys[detIdx + 1]
           entry    == outDict.at[detName]
           dataDict == SetItem(entry, "coeffs", Transpose(entry.coeffs))
       IN
       /\ stdout' = IF verbose THEN stdout \o VerboseOutput(detName, entry) ELSE stdout
       \* dataDict is outDict[detName] itself: the assignment is seen through outDict
       /\ outDict' = Put(outDict, detName, dataDict)
       /\ fromDictLog' = Append(fromDictLog, [detName |-> detName, dataDict |-> dataDict])
       /\ IF "DETECTOR" \in DOMAIN dataDict
          THEN /\ writes' = Append(writes, <<crosstalkDir, "/", dataDict["DETECTOR"], ".fits">>)
               /\ detIdx' = detIdx + 1
               /\ UNCHANGED <<pc, exc, exitCode>>
          ELSE /\ exc' = Raise("KeyError", "dataDict['DETECTOR']")
               /\ pc' = "raised"
               /\ exitCode' = 1
               /\ UNCHANGED <<writes, detIdx>>
    /\ UNCHANGED <<consumed, force, verbose, dirExists, existsLog, applied,
                   returned, hasReturned>>

\* __main__: the loop is exhausted and the script ends
Finish ==
    /\ pc = "writeLoop"
    /\ detIdx = Len(outDict.keys)
    /\ pc' = "done"
    /\ exitCode' = 0
    /\ UNCHANGED <<consumed, outDict, exc, force, verbose, dirExists, existsLog,
                   stdout, detIdx, fromDictLog, writes, applied, returned, hasReturned>>

Next ==
    \/ ReadLine
    \/ ReturnOutDict
    \/ CheckDir
    \/ MakeDetectorCrosstalk
    \/ Finish

Spec == Init /\ [][Next]_vars

NextTok ==
    \/ ReadTokLine
    \/ ReturnOutDict
    \/ CheckDir
    \/ MakeDetectorCrosstalk
    \/ Finish

\* the converter run on one-record tables over a wide range of tokens
SpecTok == Init /\ [][NextTok]_vars

(***************************************************************************)
(* Vocabulary of the properties                                            *)
(***************************************************************************)
Last(q) == q[Len(q)]

AmpIdx == {ampIndexMap[a] : a \in DOMAIN ampIndexMap}

\* the coefficient of the last record of history h that targeted the cell,
\* and 0 when no record did
LastCoeff(h, v, s, i, j) ==
    LET hits == {k \in 1..Len(h) : /\ h[k].victimDet = v
                                   /\ h[k].sourceDet = s
                                   /\ h[k].victimAmp = i
                                   /\ h[k].sourceAmp = j}
    IN IF hits = {} THEN 0
       ELSE h[CHOOSE k \in hits : \A m \in hits : m <= k].coeff

HasBoth(tok) == Contains(tok, "A") /\ Contains(tok, "B")

HasNeither(tok) == ~Contains(tok, "A") /\ ~Contains(tok, "B")

\* a non-comment line of three fields with a numeric coefficient
IsRecordLine(line) ==
    /\ ~StartsWith(Strip(line), "#")
    /\ Len(Split(Strip(line))) >= 3
    /\ IsFloat(Split(Strip(line))[3])

\* a record line whose tokens both carry an amp character and whose victim or
\* source label, the token without that character, is not a key of detMap
HasUnknownDetector(line) ==
    LET elem == Split(Strip(line)) IN
    /\ IsRecordLine(line)
    /\ ~HasNeither(elem[1])
    /\ ~HasNeither(elem[2])
    /\ \/ ~DetMapHas(Replace(elem[1], AmpOf(elem[1])))
       \/ ~DetMapHas(Replace(elem[2], AmpOf(elem[2])))

IsBlank(line) == \A k \in 1..Len(line) : line[k] \in Whitespace

\* the directory check let the run go on to the writes
CheckPassed == existsLog = <<FALSE>> \/ (existsLog = <<TRUE>> /\ force)

PathOf(detName) == <<crosstalkDir, "/", detName, ".fits">>

(***************************************************************************)
(* C1                                                                      *)
(***************************************************************************)
C1Step ==
    (pc = "readFile" /\ applied' # applied) =>
    LET r   == Last(applied')
        v   == r.victimDet
        s   == r.sourceDet
        old == outDict
        new == outDict'
        oldCoeffs == IF Has(old, v) THEN old.at[v].coeffs ELSE Zeros(<<2, 2>>)
        oldInter  == IF Has(old, v) THEN old.at[v].interChip ELSE EmptyDict
        oldMatrix == IF Has(oldInter, s) THEN oldInter.at[s] ELSE Zeros(<<2, 2>>)
    IN
    /\ DOMAIN new.at = (DOMAIN old.at) \cup {v}
    /\ \A k \in (DOMAIN old.at) \ {v} : new.at[k] = old.at[k]
    /\ IF v = s
       THEN /\ new.at[v].interChip = oldInter
            /\ new.at[v].coeffs = [oldCoeffs EXCEPT ![r.victimAmp][r.sourceAmp] = r.coeff]
       ELSE /\ new.at[v].coeffs = oldCoeffs
            /\ DOMAIN new.at[v].interChip.at = (DOMAIN oldInter.at) \cup {s}
            /\ \A q \in (DOMAIN oldInter.at) \ {s} :
                   new.at[v].interChip.at[q] = oldInter.at[q]
            /\ new.at[v].interChip.at[s] =
                   [oldMatrix EXCEPT ![r.victimAmp][r.sourceAmp] = r.coeff]

\* C1: a record whose decoded victim and source detector are equal writes one
\* cell of the victim's 'coeffs' and leaves every interChip matrix as it was;
\* a record whose detectors differ writes one cell of the victim's
\* interChip[sourceDet] and leaves every 'coeffs' as it was; no entry other
\* than the victim's changes.
C1_SelfOrInterChipOnly == [][C1Step]_vars

\* a parse that has applied a self record and an inter-chip record to one victim
C1_Witness ==
    /\ pc = "readFile"
    /\ \E a, b \in 1..Len(applied) :
          /\ applied[a].victimDet = applied[a].sourceDet
          /\ applied[b].victimDet # applied[b].sourceDet
          /\ applied[a].victimDet = applied[b].victimDet

(***************************************************************************)
(* C2                                                                      *)
(***************************************************************************)
CellsFollowHistory(d) ==
    \A v \in DOMAIN d.at : \A i, j \in AmpIdx :
        /\ d.at[v].coeffs[i][j] = LastCoeff(applied, v, v, i, j)
        /\ \A s \in DOMAIN d.at[v].interChip.at :
               d.at[v].interChip.at[s][i][j] = LastCoeff(applied, v, s, i, j)

\* C2: during the parse and in the map readFile returns, every cell of every
\* 'coeffs' and interChip matrix holds the coefficient of the last record in
\* file order that targeted it, and 0 when no record targeted it.
C2_LastWriteWinsZeroFill ==
    IF hasReturned THEN CellsFollowHistory(returned) ELSE CellsFollowHistory(outDict)

\* readFile has returned a map in which one cell was targeted twice with
\* different coefficients
C2_Witness ==
    /\ hasReturned
    /\ \E a, b \in 1..Len(applied) :
          /\ a < b
          /\ applied[a].victimDet = applied[b].victimDet
          /\ applied[a].sourceDet = applied[b].sourceDet
          /\ applied[a].victimAmp = applied[b].victimAmp
          /\ applied[a].sourceAmp = applied[b].sourceAmp
          /\ applied[a].coeff # applied[b].coeff

(***************************************************************************)
(* C3                                                                      *)
(***************************************************************************)
\* C3: a run in which parsing succeeded and the directory check passed ends
\* having requested exactly one write per victim key of the parsed map, to
\* <crosstalkDir>/<key>.fits.
C3_OneWritePerVictim ==
    (hasReturned /\ CheckPassed /\ pc \in {"done", "raised"}) =>
        /\ Len(writes) = Len(returned.keys)
        /\ \A k \in 1..Len(returned.keys) :
               Cardinality({w \in 1..Len(writes) : writes[w] = PathOf(returned.keys[k])}) = 1

(***************************************************************************)
(* C4                                                                      *)
(***************************************************************************)
\* C4: os.path.exists is called at most once, and exactly once before any
\* per-detector step; when it answered True and --force was not given the
\* process has exited with status 1 and no per-detector call or write was made.
C4_CheckedOnceBeforeWrites ==
    /\ Len(existsLog) <= 1
    /\ (pc \in {"writeLoop", "done", "exited"} \/ fromDictLog # <<>> \/ writes # <<>>)
           => Len(existsLog) = 1
    /\ (existsLog # <<>> /\ existsLog[1] /\ ~force) =>
           /\ pc = "exited"
           /\ exitCode = 1
           /\ writes = <<>>
           /\ fromDictLog = <<>>

\* the run stopped at the directory check with detectors waiting to be written
C4_Witness ==
    /\ pc = "exited"
    /\ existsLog = <<TRUE>>
    /\ ~force
    /\ returned.keys # <<>>

(***************************************************************************)
(* C5                                                                      *)
(***************************************************************************)
C5Step ==
    (pc = "readFile" /\ consumed' # consumed /\ HasUnknownDetector(Last(consumed'))) =>
        /\ pc' = "raised"
        /\ exc'.type = "KeyError"
        /\ exc'.where \in {"detMap[victimDet]", "detMap[sourceDet]"}
        /\ outDict' = outDict
        /\ ~hasReturned'

C6Step ==
    (pc = "readFile" /\ consumed' # consumed /\ IsRecordLine(Last(consumed'))) =>
    LET elem == Split(Strip(Last(consumed'))) IN
    /\ (HasBoth(elem[1]) \/ HasNeither(elem[1]) \/ HasBoth(elem[2]) \/ HasNeither(elem[2]))
           => /\ pc' = "raised"
              /\ exc'.type \in {"RuntimeError", "KeyError"}
              /\ outDict' = outDict
              /\ applied' = applied
    /\ pc' = "readFile" =>
           \A t \in {elem[1], elem[2]} : Contains(t, "A") # Contains(t, "B")

\* C6: a record line whose victim or source token contains both 'A' and 'B',
\* or neither, ends the parse with an error and adds no entry and no
\* coefficient; an accepted line has exactly one of the two in each token.
C6_BothOrNeitherFatal == [][C6Step]_vars

\* the parse ended on a victim token that contains both 'A' and 'B'
C6_Witness ==
    /\ pc = "raised"
    /\ Len(consumed) = 1
    /\ HasBoth(Split(Strip(consumed[1]))[1])
    /\ exc.type = "KeyError"

(***************************************************************************)
(* C7                                                                      *)
(***************************************************************************)
\* C7: the 'coeffs' of every dict passed to CrosstalkCalib.fromDict is the
\* transpose of the 'coeffs' readFile accumulated for that detector.
C7_TransposeHandedOver ==
    \A k \in 1..Len(fromDictLog) :
        LET acc == returned.at[fromDictLog[k].detName].coeffs IN
        \A i, j \in AmpIdx : fromDictLog[k].dataDict.coeffs[i][j] = acc[j][i]

\* a detector whose accumulated matrix is not symmetric has been handed over
C7_Witness ==
    \E k \in 1..Len(fromDictLog) :
        LET acc == returned.at[fromDictLog[k].detName].coeffs IN
        acc[0][1] # acc[1][0]

(***************************************************************************)
(* C8                                                                      *)
(***************************************************************************)
SelfSeen(v) ==
    \E k \in 1..Len(applied) : applied[k].victimDet = v /\ applied[k].sourceDet = v

DetectorFieldsSet(v, e) ==
    /\ {"DETECTOR", "DETECTOR_SERIAL"} \subseteq DOMAIN e
    /\ e["DETECTOR"] = v
    /\ e["DETECTOR_SERIAL"] = "UNKNOWN"
    /\ {"DETECTOR", "DETECTOR_SERIAL"} \subseteq DOMAIN e.metadata
    /\ e.metadata["DETECTOR"] = v
    /\ e.metadata["DETECTOR_SERIAL"] = "UNKNOWN"

DetectorFieldsUnset(e) ==
    /\ {"DETECTOR", "DETECTOR_SERIAL"} \cap DOMAIN e = {}
    /\ {"DETECTOR", "DETECTOR_SERIAL"} \cap DOMAIN e.metadata = {}

\* C8: an entry of the victim map has hasCrosstalk true; its DETECTOR and
\* DETECTOR_SERIAL fields, top-level and in metadata, are set (to its key and
\* to "UNKNOWN") if a self record for it has been applied and are absent if not.
C8_DetectorFieldsIffSelfRecord ==
    \A v \in DOMAIN outDict.at :
        /\ outDict.at[v].hasCrosstalk = TRUE
        /\ IF SelfSeen(v)
           THEN DetectorFieldsSet(v, outDict.at[v])
           ELSE DetectorFieldsUnset(outDict.at[v])

\* the parse holds one victim seen only through inter-chip records and one
\* that had a self record
C8_Witness ==
    /\ pc = "readFile"
    /\ \E v, w \in DOMAIN outDict.at :
          /\ ~SelfSeen(v)
          /\ DetectorFieldsUnset(outDict.at[v])
          /\ SelfSeen(w)
          /\ DetectorFieldsSet(w, outDict.at[w])

(***************************************************************************)
(* C9                                                                      *)
(***************************************************************************)
\* C9: a blank line is skipped like a comment line: after readFile has read
\* one, no error is raised and the parse goes on.
C9_BlankLineTolerated ==
    (~hasReturned /\ consumed # <<>> /\ IsBlank(Last(consumed))) =>
        (pc = "readFile" /\ exc = NoExc)

(***************************************************************************)
(* C10                                                                     *)
(***************************************************************************)
\* C10: after readFile has returned, the parsed map stays equal to what
\* readFile accumulated, whatever has been handed to makeDetectorCrosstalk.
C10_HandOverDoesNotMutate == hasReturned => outDict = returned

====
